---- MODULE Spec2Model ----
(***************************************************************************)
(* A model of intx (include/intx/intx.hpp): fixed-width unsigned integers  *)
(* uint<256> and uint<512> built as two halves {lo, hi} over the uint128   *)
(* primitive, with the additive, shift, multiplicative and division cores, *)
(* exponentiation and the big-endian byte conversion.                      *)
(*                                                                         *)
(* Scaling.  TLC's integers are 32 bits wide, so the machine word          *)
(* (uint64_t) is modelled WordBits bits wide and a byte one bit wide; the  *)
(* type ladder keeps its shape: uint128 is two words, uint256 two uint128, *)
(* uint512 two uint256.  A value of type T is the integer                  *)
(* value(x) = value(x.hi) * 2^(bits/2) + value(x.lo), and every operation  *)
(* is taken modulo 2^bits(T) exactly where the code's type truncates.      *)
(***************************************************************************)
EXTENDS Integers, Sequences, FiniteSets, TLC

VARIABLES
    pc,     \* "call": the caller is about to invoke op; "loop": inside a loop; "done"
    op,     \* the function the caller invokes
    T,      \* the operand type: "uint256" or "uint512"
    a,      \* first operand
    b,      \* second operand (the shift amount for shl and lsr)
    res     \* the function's locals and return value, a record

vars == <<pc, op, T, a, b, res>>

\* Width of the scaled machine word (uint64_t).
WordBits == 2
\* Operand types up to this width are enumerated exhaustively, wider ones sampled.
ExhaustBits == 8
\* Number of pseudo-random values added to a sampled operand set.
SampleExtra == 16
\* How far past the operand width the shift amounts range.
ShiftBeyond == 3

(***************************************************************************)
(* The type ladder: struct uint<N>, traits<T>.                             *)
(***************************************************************************)
bits(t) ==
    CASE t = "uint64" -> WordBits
      [] t = "uint128" -> 2 * WordBits
      [] t = "uint256" -> 4 * WordBits
      [] t = "uint512" -> 8 * WordBits

half_bits(t) == bits(t) \div 2

half_type(t) ==
    CASE t = "uint128" -> "uint64"
      [] t = "uint256" -> "uint128"
      [] t = "uint512" -> "uint256"

double_type(t) ==
    CASE t = "uint64" -> "uint128"
      [] t = "uint128" -> "uint256"
      [] t = "uint256" -> "uint512"

\* All values of type t.
Values(t) == 0 .. (2^bits(t) - 1)

\* x.lo and x.hi of a value of type t.
lo_half(x, t) == x % 2^half_bits(t)
hi_half(x, t) == x \div 2^half_bits(t)

\* The constructor uint(half_type lo, half_type hi).
uint(lo, hi, t) == hi * 2^half_bits(t) + lo

(***************************************************************************)
(* The uint128 primitive of intx/int128.hpp (an external collaborator      *)
(* providing add, mul, shift and compare on the double word).              *)
(***************************************************************************)
prim_add(x, y, t) == (x + y) % 2^bits(t)
prim_mul(x, y, t) == (x * y) % 2^bits(t)
prim_shl(x, s, t) == IF s < bits(t) THEN (x * 2^s) % 2^bits(t) ELSE 0
prim_lsr(x, s, t) == IF s < bits(t) THEN x \div 2^s ELSE 0
\* umul(uint64_t, uint64_t): the full double-word product.
prim_umul(x, y) == x * y

(***************************************************************************)
(* Operand sets.                                                           *)
(***************************************************************************)
\* The value of n bits whose every word is p.
RECURSIVE Repeat(_, _)
Repeat(p, n) ==
    IF n <= WordBits THEN p % 2^n
    ELSE p + 2^WordBits * Repeat(p, n - WordBits)

Sample(n) ==
    {0, 2^n - 1}
    \cup {2^k : k \in 0 .. (n - 1)}
    \cup {2^k - 1 : k \in 0 .. (n - 1)}
    \cup {2^n - 2^k : k \in 0 .. (n - 1)}
    \cup {2^n - 1 - 2^k : k \in 0 .. (n - 1)}
    \cup {Repeat(p, n) : p \in 0 .. (2^WordBits - 1)}
    \cup {(k * 10368889) % 2^n : k \in 1 .. SampleExtra}

Inputs(t) == IF bits(t) <= ExhaustBits THEN Values(t) ELSE Sample(bits(t))

\* The exponents exp is called with: small ones, every single bit, all bits,
\* and pseudo-random ones.
Exponents(n) ==
    {0, 3, 5, 2^n - 1}
    \cup {2^k : k \in 0 .. (n - 1)}
    \cup {(k * 10368889) % 2^n : k \in 1 .. SampleExtra}

None == [kind |-> "none"]

(***************************************************************************)
(* Bitwise operators (elementwise on the two halves, so bitwise on the     *)
(* value).                                                                 *)
(***************************************************************************)
RECURSIVE operator_or(_, _)
operator_or(x, y) ==
    IF x = 0 THEN y
    ELSE IF y = 0 THEN x
    ELSE (IF x % 2 = 1 \/ y % 2 = 1 THEN 1 ELSE 0)
         + 2 * operator_or(x \div 2, y \div 2)

RECURSIVE operator_and(_, _)
operator_and(x, y) ==
    IF x = 0 \/ y = 0 THEN 0
    ELSE (IF x % 2 = 1 /\ y % 2 = 1 THEN 1 ELSE 0)
         + 2 * operator_and(x \div 2, y \div 2)

operator_not(x, t) == 2^bits(t) - 1 - x

(***************************************************************************)
(* Shift core.                                                             *)
(***************************************************************************)
RECURSIVE shl(_, _, _)
RECURSIVE lsr(_, _, _)

\* The mutant drops the part moved from lo to hi.
shl_no_overflow(x, shift, t) ==
    IF t \in {"uint64", "uint128"} THEN prim_shl(x, shift, t)
    ELSE IF shift < half_bits(t)
    THEN LET h == half_type(t)
             lo == shl(lo_half(x, t), shift, h)
             hi_part == shl(hi_half(x, t), shift, h)
         IN  uint(lo, hi_part, t)
    ELSE IF shift < bits(t)
    THEN uint(0, shl(lo_half(x, t), shift - half_bits(t), half_type(t)), t)
    ELSE 0

shl(x, shift, t) ==
    IF t \in {"uint64", "uint128"} THEN prim_shl(x, shift, t)
    ELSE IF shift < half_bits(t)
    THEN LET h == half_type(t)
             lo == shl(lo_half(x, t), shift, h)
             rshift == half_bits(t) - shift
             lo_overflow == lsr(lsr(lo_half(x, t), rshift - 1, h), 1, h)
             hi_part == shl(hi_half(x, t), shift, h)
             hi == operator_or(hi_part, lo_overflow)
         IN  uint(lo, hi, t)
    ELSE IF shift < bits(t)
    THEN uint(0, shl(lo_half(x, t), shift - half_bits(t), half_type(t)), t)
    ELSE 0

\* The mutant shifts the high half by the whole amount in the second branch.
lsr_whole_shift(x, shift, t) ==
    IF t \in {"uint64", "uint128"} THEN prim_lsr(x, shift, t)
    ELSE IF shift < half_bits(t)
    THEN LET h == half_type(t)
             hi == lsr(hi_half(x, t), shift, h)
             lshift == half_bits(t) - shift
             hi_overflow == shl(shl(hi_half(x, t), lshift - 1, h), 1, h)
             lo_part == lsr(lo_half(x, t), shift, h)
             lo == operator_or(lo_part, hi_overflow)
         IN  uint(lo, hi, t)
    ELSE IF shift < bits(t)
    THEN uint(lsr(hi_half(x, t), shift, half_type(t)), 0, t)
    ELSE 0

lsr(x, shift, t) ==
    IF t \in {"uint64", "uint128"} THEN prim_lsr(x, shift, t)
    ELSE IF shift < half_bits(t)
    THEN LET h == half_type(t)
             hi == lsr(hi_half(x, t), shift, h)
             lshift == half_bits(t) - shift
             hi_overflow == shl(shl(hi_half(x, t), lshift - 1, h), 1, h)
             lo_part == lsr(lo_half(x, t), shift, h)
             lo == operator_or(lo_part, hi_overflow)
         IN  uint(lo, hi, t)
    ELSE IF shift < bits(t)
    THEN uint(lsr(hi_half(x, t), shift - half_bits(t), half_type(t)), 0, t)
    ELSE 0

(***************************************************************************)
(* The caller of the shift core: x << shift and x >> shift with an         *)
(* unsigned shift amount.                                                  *)
(***************************************************************************)
InitShift ==
    /\ pc = "call"
    /\ op \in {"shl", "lsr"}
    /\ T \in {"uint256", "uint512"}
    /\ a \in Inputs(T)
    /\ b \in 0 .. (bits(T) + ShiftBeyond)
    /\ res = None

Call_shl ==
    /\ pc = "call"
    /\ op = "shl"
    /\ res' = [value |-> shl(a, b, T)]
    /\ pc' = "done"
    /\ UNCHANGED <<op, T, a, b>>

Call_lsr ==
    /\ pc = "call"
    /\ op = "lsr"
    /\ res' = [value |-> lsr(a, b, T)]
    /\ pc' = "done"
    /\ UNCHANGED <<op, T, a, b>>

NextShift == Call_shl \/ Call_lsr

SpecShift == InitShift /\ [][NextShift]_vars

\* (x * 2^k) mod 2^n, computed without leaving 2^n.
ShlRef(x, k, n) == IF k >= n THEN 0 ELSE (x % 2^(n - k)) * 2^k

\* floor(x / 2^k) for x < 2^n.
LsrRef(x, k, n) == IF k >= n THEN 0 ELSE x \div 2^k

\* C6: for every a of width N and every shift amount k >= 0, a << k equals
\* (a * 2^k) mod 2^N, in all three branches (k < N/2, N/2 <= k < N, k >= N
\* where the result is 0) and for k = 0, where the result is a.
C6_ShlIsMulPow2 ==
    (pc = "done" /\ op = "shl") =>
        /\ res.value = ShlRef(a, b, bits(T))
        /\ (b = 0 => res.value = a)
        /\ (b >= bits(T) => res.value = 0)

\* A 512-bit shift by less than half the width that moves set bits from the
\* low half into the high half.
C6_Witness ==
    /\ pc = "done" /\ op = "shl" /\ T = "uint512"
    /\ 0 < b /\ b < half_bits(T)
    /\ lo_half(a, T) \div 2^(half_bits(T) - b) > 0
    /\ hi_half(res.value, T) % 2^b > 0

\* C7: for every a of width N and every shift amount k >= 0, a >> k equals
\* floor(a / 2^k), in all three branches (k < N/2, N/2 <= k < N, k >= N where
\* the result is 0) and for k = 0, where the result is a.
C7_LsrIsDivPow2 ==
    (pc = "done" /\ op = "lsr") =>
        /\ res.value = LsrRef(a, b, bits(T))
        /\ (b = 0 => res.value = a)
        /\ (b >= bits(T) => res.value = 0)

\* A 512-bit shift by at least half the width (second branch) with a non-zero
\* result.
C7_Witness ==
    /\ pc = "done" /\ op = "lsr" /\ T = "uint512"
    /\ half_bits(T) < b /\ b < bits(T)
    /\ res.value > 0

(***************************************************************************)
(* Additive core.                                                          *)
(***************************************************************************)
RECURSIVE add_with_carry(_, _, _)

\* The mutant returns the carry of the high-half add alone.
add_with_carry_k2(x, y, t) ==
    IF t = "uint128"
    THEN LET s == prim_add(x, y, t) IN [sum |-> s, carry |-> s < x]
    ELSE LET h == half_type(t)
             r1 == add_with_carry(lo_half(x, t), lo_half(y, t), h)
             r2 == add_with_carry(hi_half(x, t), hi_half(y, t), h)
             r3 == add_with_carry(r2.sum, IF r1.carry THEN 1 ELSE 0, h)
         IN  [sum |-> uint(r1.sum, r3.sum, t), carry |-> r2.carry,
              k1 |-> r1.carry, k2 |-> r2.carry, k3 |-> r3.carry]

add_with_carry(x, y, t) ==
    IF t = "uint128"
    THEN LET s == prim_add(x, y, t) IN [sum |-> s, carry |-> s < x]
    ELSE LET h == half_type(t)
             r1 == add_with_carry(lo_half(x, t), lo_half(y, t), h)
             r2 == add_with_carry(hi_half(x, t), hi_half(y, t), h)
             r3 == add_with_carry(r2.sum, IF r1.carry THEN 1 ELSE 0, h)
         IN  [sum |-> uint(r1.sum, r3.sum, t), carry |-> r2.carry \/ r3.carry,
              k1 |-> r1.carry, k2 |-> r2.carry, k3 |-> r3.carry]

\* add(Int, Int), add(uint128, uint128), add(uint64_t, uint64_t), operator+.
add(x, y, t) ==
    IF t \in {"uint64", "uint128"} THEN prim_add(x, y, t)
    ELSE add_with_carry(x, y, t).sum

(***************************************************************************)
(* The caller of the additive core.                                        *)
(***************************************************************************)
InitAdd ==
    /\ pc = "call"
    /\ op = "add_with_carry"
    /\ T \in {"uint256", "uint512"}
    /\ a \in Inputs(T)
    /\ b \in Inputs(T)
    /\ res = None

Call_add_with_carry ==
    /\ pc = "call"
    /\ op = "add_with_carry"
    /\ res' = add_with_carry(a, b, T)
    /\ pc' = "done"
    /\ UNCHANGED <<op, T, a, b>>

NextAdd == Call_add_with_carry

SpecAdd == InitAdd /\ [][NextAdd]_vars

\* C5: add_with_carry(a, b) returns sum = (a + b) mod 2^N and a carry that is
\* true exactly when a + b >= 2^N; the carry is k2 OR k3, where k2 is the carry
\* of the high-half add and k3 the carry of folding k1 into the high half.
C5_AddWithCarry ==
    (pc = "done" /\ op = "add_with_carry") =>
        /\ res.sum = (a + b) % 2^bits(T)
        /\ res.carry = (a + b >= 2^bits(T))
        /\ res.carry = (res.k2 \/ res.k3)

\* A 512-bit add whose carry out comes from folding the low-half carry (k3)
\* and not from the high-half add (k2).
C5_Witness ==
    /\ pc = "done" /\ op = "add_with_carry" /\ T = "uint512"
    /\ res.carry /\ res.k3 /\ ~res.k2 /\ res.k1

(***************************************************************************)
(* Multiplicative core.                                                    *)
(***************************************************************************)
RECURSIVE umul(_, _, _)

\* The mutant leaves the high half of u1 out of the high half of the product.
umul_locals_no_u1_hi(x, y, t) ==
    LET h == half_type(t)
        t0 == umul(lo_half(x, t), lo_half(y, t), h)
        t1 == umul(hi_half(x, t), lo_half(y, t), h)
        t2 == umul(lo_half(x, t), hi_half(y, t), h)
        t3 == umul(hi_half(x, t), hi_half(y, t), h)
        u1 == add(t1, hi_half(t0, t), t)
        u2 == add(t2, lo_half(u1, t), t)
        lo == operator_or(shl(u2, half_bits(t), t), lo_half(t0, t))
        hi == add(t3, hi_half(u2, t), t)
    IN  [t0 |-> t0, t1 |-> t1, t2 |-> t2, t3 |-> t3, u1 |-> u1, u2 |-> u2,
         lo |-> lo, hi |-> hi]

\* The locals of umul(const Int& x, const Int& y) at its return.
umul_locals(x, y, t) ==
    LET h == half_type(t)
        t0 == umul(lo_half(x, t), lo_half(y, t), h)
        t1 == umul(hi_half(x, t), lo_half(y, t), h)
        t2 == umul(lo_half(x, t), hi_half(y, t), h)
        t3 == umul(hi_half(x, t), hi_half(y, t), h)
        u1 == add(t1, hi_half(t0, t), t)
        u2 == add(t2, lo_half(u1, t), t)
        lo == operator_or(shl(u2, half_bits(t), t), lo_half(t0, t))
        hi == add(add(t3, hi_half(u2, t), t), hi_half(u1, t), t)
    IN  [t0 |-> t0, t1 |-> t1, t2 |-> t2, t3 |-> t3, u1 |-> u1, u2 |-> u2,
         lo |-> lo, hi |-> hi]

\* umul of two values of type t, a value of double_type(t).
umul(x, y, t) ==
    IF t = "uint64" THEN prim_umul(x, y)
    ELSE LET l == umul_locals(x, y, t) IN uint(l.lo, l.hi, double_type(t))

\* as_words(x)[i] and the number of words of a value of type t.
num_words(t) == bits(t) \div WordBits
as_words(x, t) == [i \in 0 .. (num_words(t) - 1) |-> (x \div 2^(WordBits * i)) % 2^WordBits]

\* The value whose words are pw[0 .. n-1].
RECURSIVE from_words(_, _)
from_words(pw, n) ==
    IF n = 0 THEN 0
    ELSE from_words(pw, n - 1) + pw[n - 1] * 2^(WordBits * (n - 1))

\* The inner loop of mul_loop_opt from index i: the words pw and the carry k.
RECURSIVE mul_loop_opt_inner(_, _, _, _, _, _, _)
mul_loop_opt_inner(pw, k, i, j, n, uw, vw) ==
    IF i >= n - j - 1 THEN [pw |-> pw, k |-> k]
    ELSE LET tt == prim_add(prim_add(prim_umul(uw[i], vw[j]), pw[i + j], "uint128"),
                            k, "uint128")
         IN  mul_loop_opt_inner([pw EXCEPT ![i + j] = lo_half(tt, "uint128")],
                                hi_half(tt, "uint128"), i + 1, j, n, uw, vw)

\* The outer loop of mul_loop_opt from index j.
RECURSIVE mul_loop_opt_outer(_, _, _, _, _)
mul_loop_opt_outer(pw, j, n, uw, vw) ==
    IF j >= n THEN pw
    ELSE LET r == mul_loop_opt_inner(pw, 0, 0, j, n, uw, vw)
             top == prim_add(r.pw[n - 1],
                             prim_add(prim_mul(uw[n - j - 1], vw[j], "uint64"),
                                      r.k, "uint64"),
                             "uint64")
         IN  mul_loop_opt_outer([r.pw EXCEPT ![n - 1] = top], j + 1, n, uw, vw)

mul_loop_opt(u, v, t) ==
    LET n == num_words(t)
        uw == as_words(u, t)
        vw == as_words(v, t)
        p == mul_loop_opt_outer([i \in 0 .. (n - 1) |-> 0], 0, n, uw, vw)
    IN  from_words(p, n)

RECURSIVE operator_mul(_, _, _)

\* The mutant folds only one crossed term into the high half.
mul_one_cross(x, y, t) ==
    LET h == half_type(t)
        tt == umul(lo_half(x, t), lo_half(y, t), h)
        hi == add(operator_mul(lo_half(x, t), hi_half(y, t), h), hi_half(tt, t), h)
        lo == lo_half(tt, t)
    IN  uint(lo, hi, t)

mul(x, y, t) ==
    LET h == half_type(t)
        tt == umul(lo_half(x, t), lo_half(y, t), h)
        hi == add(add(operator_mul(lo_half(x, t), hi_half(y, t), h),
                      operator_mul(hi_half(x, t), lo_half(y, t), h), h),
                  hi_half(tt, t), h)
        lo == lo_half(tt, t)
    IN  uint(lo, hi, t)

\* operator*: the primitive on uint64_t and uint128, mul on uint256,
\* mul_loop_opt on uint512.
operator_mul(x, y, t) ==
    CASE t \in {"uint64", "uint128"} -> prim_mul(x, y, t)
      [] t = "uint256" -> mul(x, y, t)
      [] t = "uint512" -> mul_loop_opt(x, y, t)

(***************************************************************************)
(* The caller of umul.                                                     *)
(***************************************************************************)
InitUmul ==
    /\ pc = "call"
    /\ op = "umul"
    /\ T \in {"uint128", "uint256"}
    /\ a \in Inputs(T)
    /\ b \in Inputs(T)
    /\ res = None

Call_umul ==
    /\ pc = "call"
    /\ op = "umul"
    /\ res' = [value |-> umul(a, b, T)]
    /\ pc' = "done"
    /\ UNCHANGED <<op, T, a, b>>

NextUmul == Call_umul

SpecUmul == InitUmul /\ [][NextUmul]_vars

\* C3: umul(x, y) returns the exact 2N-bit product, value(hi) * 2^N + value(lo)
\* = x * y, and the intermediate sums u1 = t1 + t0.hi and u2 = t2 + u1.lo do
\* not overflow their width.
C3_UmulExact ==
    (pc = "done" /\ op = "umul") =>
        LET l == umul_locals(a, b, T)
        IN  /\ res.value = a * b
            /\ res.value = l.hi * 2^bits(T) + l.lo
            /\ l.lo < 2^bits(T)
            /\ l.hi < 2^bits(T)
            /\ l.u1 = l.t1 + hi_half(l.t0, T)
            /\ l.u2 = l.t2 + lo_half(l.u1, T)

\* The scenario of the specification: 2^(N/2) * 2^(N/2) on the widest umul
\* returns 2^N, the value with hi = 1 and lo = 0.
C3_Witness ==
    /\ pc = "done" /\ op = "umul" /\ T = "uint256"
    /\ a = 2^half_bits(T) /\ b = 2^half_bits(T)
    /\ res.value = 2^bits(T)

(***************************************************************************)
(* The caller of the truncated multiplication: x * y, and the two          *)
(* strategies mul and mul_loop_opt called directly.                        *)
(***************************************************************************)
InitMul ==
    /\ pc = "call"
    /\ op \in {"operator*", "mul", "mul_loop_opt"}
    /\ T \in {"uint256", "uint512"}
    /\ a \in Inputs(T)
    /\ b \in Inputs(T)
    /\ res = None

Call_operator_mul ==
    /\ pc = "call"
    /\ op = "operator*"
    /\ res' = [value |-> operator_mul(a, b, T)]
    /\ pc' = "done"
    /\ UNCHANGED <<op, T, a, b>>

Call_mul ==
    /\ pc = "call"
    /\ op = "mul"
    /\ res' = [value |-> mul(a, b, T)]
    /\ pc' = "done"
    /\ UNCHANGED <<op, T, a, b>>

Call_mul_loop_opt ==
    /\ pc = "call"
    /\ op = "mul_loop_opt"
    /\ res' = [value |-> mul_loop_opt(a, b, T)]
    /\ pc' = "done"
    /\ UNCHANGED <<op, T, a, b>>

NextMul == Call_operator_mul \/ Call_mul \/ Call_mul_loop_opt

SpecMul == InitMul /\ [][NextMul]_vars

\* (x * y) mod 2^n by doubling, every intermediate value below 2^(n+2).
RECURSIVE MulMod(_, _, _)
MulMod(x, y, n) ==
    IF y = 0 THEN 0
    ELSE ((y % 2) * x + 2 * MulMod(x, y \div 2, n)) % 2^n

\* C4: operator* returns (a * b) mod 2^N, the low half of umul(a, b), on the
\* 256-bit path (mul) and on the 512-bit path (mul_loop_opt); mul and
\* mul_loop_opt return that same value on the same inputs at either width.
C4_MulTruncated ==
    (pc = "done" /\ op \in {"operator*", "mul", "mul_loop_opt"}) =>
        /\ res.value = MulMod(a, b, bits(T))
        /\ (T = "uint256" =>
               res.value = lo_half(umul(a, b, T), double_type(T)))

\* A 512-bit product through operator* that wraps: the exact product does
\* not fit and the result is not zero.
C4_Witness ==
    /\ pc = "done" /\ op = "operator*" /\ T = "uint512"
    /\ hi_half(a, T) > 0 /\ hi_half(b, T) > 0
    /\ res.value > 0

(***************************************************************************)
(* Division core.  udivrem is declared in intx.hpp and defined elsewhere;  *)
(* its body follows the specification's section 4.6: Knuth's Algorithm D   *)
(* on base-2^WordBits words.                                               *)
(***************************************************************************)
Base == 2^WordBits

\* Word j of x.
digit(x, j) == (x \div Base^j) % Base

\* clz of a non-zero machine word.
RECURSIVE prim_clz(_, _)
prim_clz(x, n) == IF x >= 2^(n - 1) THEN 0 ELSE 1 + prim_clz(2 * x, n)

RECURSIVE count_significant_words(_, _)
count_significant_words(x, t) ==
    IF t = "uint64" THEN (IF x # 0 THEN 1 ELSE 0)
    ELSE LET h == count_significant_words(hi_half(x, t), half_type(t))
             l == count_significant_words(lo_half(x, t), half_type(t))
         IN  IF h # 0 THEN h + (num_words(t) \div 2) ELSE l

\* Step 1, divisor of one word: the quotient word by word from the top word
\* i of u down, r the running remainder.
RECURSIVE udivrem_by1(_, _, _, _, _)
udivrem_by1(u, d, i, r, q) ==
    IF i < 0 THEN [kind |-> "value", quot |-> q, rem |-> r]
    ELSE LET num == r * Base + digit(u, i)
         IN  udivrem_by1(u, d, i - 1, num % d, q + (num \div d) * Base^i)

\* Step 3c: the refinement of the trial quotient.
RECURSIVE knuth_refine(_, _, _, _, _)
knuth_refine(qhat, rhat, vn1, vn2, un2) ==
    IF rhat < Base /\ qhat * vn2 > Base * rhat + un2
    THEN knuth_refine(qhat - 1, rhat + vn1, vn1, vn2, un2)
    ELSE qhat

\* Step 3: the main loop from j down to 0 over the normalized un and vn (vn
\* of n words); q collects the quotient words.
RECURSIVE knuth_loop(_, _, _, _, _)
knuth_loop(un, vn, n, j, q) ==
    IF j < 0 THEN [quot |-> q, rem |-> un]
    ELSE LET num == digit(un, j + n) * Base + digit(un, j + n - 1)
             vn1 == digit(vn, n - 1)
             vn2 == digit(vn, n - 2)
             q0 == IF num \div vn1 < Base - 1 THEN num \div vn1 ELSE Base - 1
             r0 == num - q0 * vn1
             qhat == knuth_refine(q0, r0, vn1, vn2, digit(un, j + n - 2))
             window == (un \div Base^j) % Base^(n + 1)
             diff == window - qhat * vn
             qj == IF diff < 0 THEN qhat - 1 ELSE qhat
             back == IF diff < 0 THEN diff + vn ELSE diff
         IN  knuth_loop(un - window * Base^j + back * Base^j, vn, n, j - 1,
                        q + qj * Base^j)

\* The body of udivrem: short-circuits, normalize, main loop, denormalize.
udivrem_body(u, v, t) ==
    IF v = 0 THEN [kind |-> "divide_by_zero"]
    ELSE IF v > u THEN [kind |-> "value", quot |-> 0, rem |-> u]
    ELSE LET n == count_significant_words(v, t)
             m == count_significant_words(u, t) - n
         IN  IF n = 1 THEN udivrem_by1(u, v, m, 0, 0)
             ELSE LET s == prim_clz(digit(v, n - 1), WordBits)
                      r == knuth_loop(u * 2^s, v * 2^s, n, m, 0)
                  IN  [kind |-> "value", quot |-> r.quot, rem |-> r.rem \div 2^s]

\* What a caller of a noexcept function returning a plain value gets: the
\* value, or, when an error is raised inside, the end of the program.
noexcept(r) == IF r.kind = "value" THEN r ELSE [kind |-> "terminate"]

\* div_result<Int> udivrem(const Int& u, const Int& v) noexcept.
udivrem(u, v, t) == noexcept(udivrem_body(u, v, t))

\* Unary minus.
operator_neg(x, t) == add(operator_not(x, t), 1, t)

\* The mutant gives the remainder the sign of the divisor.
sdivrem_rem_sign_of_v(u, v, t) ==
    LET sign_mask == shl(1, bits(t) - 1, t)
        u_is_neg == operator_and(u, sign_mask) # 0
        v_is_neg == operator_and(v, sign_mask) # 0
        u_abs == IF u_is_neg THEN operator_neg(u, t) ELSE u
        v_abs == IF v_is_neg THEN operator_neg(v, t) ELSE v
        q_is_neg == (u_is_neg # v_is_neg)
        r == udivrem(u_abs, v_abs, t)
    IN  IF r.kind # "value" THEN r
        ELSE [kind |-> "value",
              quot |-> IF q_is_neg THEN operator_neg(r.quot, t) ELSE r.quot,
              rem |-> IF v_is_neg THEN operator_neg(r.rem, t) ELSE r.rem]

sdivrem(u, v, t) ==
    LET sign_mask == shl(1, bits(t) - 1, t)
        u_is_neg == operator_and(u, sign_mask) # 0
        v_is_neg == operator_and(v, sign_mask) # 0
        u_abs == IF u_is_neg THEN operator_neg(u, t) ELSE u
        v_abs == IF v_is_neg THEN operator_neg(v, t) ELSE v
        q_is_neg == (u_is_neg # v_is_neg)
        r == udivrem(u_abs, v_abs, t)
    IN  IF r.kind # "value" THEN r
        ELSE [kind |-> "value",
              quot |-> IF q_is_neg THEN operator_neg(r.quot, t) ELSE r.quot,
              rem |-> IF u_is_neg THEN operator_neg(r.rem, t) ELSE r.rem]

\* The mutant returns the remainder as the quotient.
operator_div_rem(x, y, t) ==
    LET r == udivrem(x, y, t)
    IN  IF r.kind # "value" THEN r ELSE [kind |-> "value", value |-> r.rem]

operator_div(x, y, t) ==
    LET r == udivrem(x, y, t)
    IN  IF r.kind # "value" THEN r ELSE [kind |-> "value", value |-> r.quot]

operator_rem(x, y, t) ==
    LET r == udivrem(x, y, t)
    IN  IF r.kind # "value" THEN r ELSE [kind |-> "value", value |-> r.rem]

(***************************************************************************)
(* The caller of the division core.                                        *)
(***************************************************************************)
InitDiv ==
    /\ pc = "call"
    /\ op \in {"udivrem", "sdivrem", "operator/", "operator%"}
    /\ T \in {"uint256", "uint512"}
    /\ a \in Inputs(T)
    /\ b \in Inputs(T)
    /\ res = None

Call_udivrem ==
    /\ pc = "call"
    /\ op = "udivrem"
    /\ res' = udivrem(a, b, T)
    /\ pc' = "done"
    /\ UNCHANGED <<op, T, a, b>>

Call_sdivrem ==
    /\ pc = "call"
    /\ op = "sdivrem"
    /\ res' = sdivrem(a, b, T)
    /\ pc' = "done"
    /\ UNCHANGED <<op, T, a, b>>

Call_operator_div ==
    /\ pc = "call"
    /\ op = "operator/"
    /\ res' = operator_div(a, b, T)
    /\ pc' = "done"
    /\ UNCHANGED <<op, T, a, b>>

Call_operator_rem ==
    /\ pc = "call"
    /\ op = "operator%"
    /\ res' = operator_rem(a, b, T)
    /\ pc' = "done"
    /\ UNCHANGED <<op, T, a, b>>

NextDiv == Call_udivrem \/ Call_sdivrem \/ Call_operator_div \/ Call_operator_rem

SpecDiv == InitDiv /\ [][NextDiv]_vars

\* C1: for every u and every v # 0, udivrem(u, v) returns (q, r) with
\* u = q * v + r exactly and 0 <= r < v; u / v is that q and u % v that r.
C1_DivisionIdentity ==
    (pc = "done" /\ b # 0) =>
        /\ op = "udivrem" =>
              /\ res.kind = "value"
              /\ 0 <= res.rem /\ res.rem < b
              /\ 0 <= res.quot /\ res.quot <= a \div b
              /\ a = res.quot * b + res.rem
        /\ op = "operator/" => (res.kind = "value" /\ res.value = a \div b)
        /\ op = "operator%" => (res.kind = "value" /\ res.value = a % b)

\* A 512-bit division by a divisor of several words, with a quotient of
\* several words and a non-zero remainder.
C1_Witness ==
    /\ pc = "done" /\ op = "udivrem" /\ T = "uint512"
    /\ b >= Base /\ res.kind = "value"
    /\ res.quot >= Base /\ res.rem > 0

\* C2: division by zero is reported to the caller as an error: each of
\* udivrem(u, 0), sdivrem(u, 0), u / 0 and u % 0 ends in a divide-by-zero
\* error, not in an ordinary value and not in an outcome the caller cannot
\* observe.
C2_DivideByZeroReported ==
    (pc = "done" /\ op \in {"udivrem", "sdivrem", "operator/", "operator%"}
        /\ b = 0) => res.kind = "divide_by_zero"

\* The value of x read as an n-bit two's-complement number.
Signed(x, n) == IF x >= 2^(n - 1) THEN x - 2^n ELSE x
Abs(x) == IF x < 0 THEN 0 - x ELSE x

\* C8: for every u and every v # 0 read as two's-complement numbers,
\* sdivrem(u, v) returns (q, r) with u = q * v + r (mod 2^N), r zero or of the
\* sign of u, and |r| < |v|, the most negative value included.
C8_SignedDivision ==
    (pc = "done" /\ op = "sdivrem" /\ b # 0) =>
        /\ res.kind = "value"
        /\ res.quot \in Values(T) /\ res.rem \in Values(T)
        /\ (MulMod(res.quot, b, bits(T)) + res.rem) % 2^bits(T) = a
        /\ \/ res.rem = 0
           \/ (Signed(res.rem, bits(T)) < 0) = (Signed(a, bits(T)) < 0)
        /\ Abs(Signed(res.rem, bits(T))) < Abs(Signed(b, bits(T)))

\* The most negative 512-bit value divided by -1: the quotient wraps to
\* the most negative value and the remainder is 0.
C8_Witness ==
    /\ pc = "done" /\ op = "sdivrem" /\ T = "uint512"
    /\ a = 2^(bits(T) - 1) /\ b = 2^bits(T) - 1
    /\ res.kind = "value" /\ res.quot = 2^(bits(T) - 1) /\ res.rem = 0

(***************************************************************************)
(* Exponentiation: exp(base, exponent), one action per step of its loop.   *)
(* res holds its locals; iter counts the iterations of the loop.           *)
(***************************************************************************)
InitExp ==
    /\ pc = "call"
    /\ op = "exp"
    /\ T \in {"uint256", "uint512"}
    /\ a \in Inputs(T)
    /\ b \in Exponents(bits(T))
    /\ res = None

\* Int result{1}; the parameters base and exponent are copies.
Call_exp ==
    /\ pc = "call"
    /\ op = "exp"
    /\ res' = [base |-> a, exponent |-> b, result |-> 1, iter |-> 0]
    /\ pc' = "loop"
    /\ UNCHANGED <<op, T, a, b>>

\* The mutant squares the base before it multiplies the result by it.
exp_body_square_first(l, t) ==
    LET sq == operator_mul(l.base, l.base, t)
    IN  [base |-> sq,
         exponent |-> lsr(l.exponent, 1, t),
         result |-> IF operator_and(l.exponent, 1) # 0
                    THEN operator_mul(l.result, sq, t)
                    ELSE l.result,
         iter |-> l.iter + 1]

\* One iteration of the loop on the locals l.
exp_body(l, t) ==
    [base |-> operator_mul(l.base, l.base, t),
     exponent |-> lsr(l.exponent, 1, t),
     result |-> IF operator_and(l.exponent, 1) # 0
                THEN operator_mul(l.result, l.base, t)
                ELSE l.result,
     iter |-> l.iter + 1]

\* while (exponent != 0) { ... }
Exp_iterate ==
    /\ pc = "loop"
    /\ op = "exp"
    /\ res.exponent # 0
    /\ res' = exp_body(res, T)
    /\ UNCHANGED <<pc, op, T, a, b>>

\* return result;
Exp_return ==
    /\ pc = "loop"
    /\ op = "exp"
    /\ res.exponent = 0
    /\ pc' = "done"
    /\ UNCHANGED <<op, T, a, b, res>>

NextExp == Call_exp \/ Exp_iterate \/ Exp_return

SpecExp == InitExp /\ [][NextExp]_vars

\* x^e mod 2^n from x^(2k) = (x^k)^2 and x^(2k+1) = (x^k)^2 * x.
RECURSIVE PowMod(_, _, _)
PowMod(x, e, n) ==
    IF e = 0 THEN 1
    ELSE LET h == PowMod(x, e \div 2, n)
             sq == MulMod(h, h, n)
         IN  IF e % 2 = 1 THEN MulMod(sq, x, n) ELSE sq

\* x^e mod 2^n as e multiplications by x.
RECURSIVE PowModNaive(_, _, _)
PowModNaive(x, e, n) ==
    IF e = 0 THEN 1 ELSE MulMod(x, PowModNaive(x, e - 1, n), n)

\* Exponents up to this one are also compared with PowModNaive.
NaiveExponent == 16

\* What holds of the locals of exp while it runs and when it has returned.
ExpState ==
    (op = "exp") =>
        /\ (pc \in {"loop", "done"}) =>
              /\ res.iter <= bits(T)
              /\ res.exponent < 2^(bits(T) - res.iter)
        /\ (pc = "done") =>
              /\ res.exponent = 0
              /\ res.result = PowMod(a, b, bits(T))
              /\ (b <= NaiveExponent => res.result = PowModNaive(a, b, bits(T)))
              /\ (b = 0 => (res.result = 1 /\ res.iter = 0))

\* What every iteration of the loop does to the exponent.
ExpStep ==
    (pc = "loop" /\ pc' = "loop") =>
        /\ res'.iter = res.iter + 1
        /\ res'.exponent = res.exponent \div 2
        /\ res'.exponent < res.exponent

\* C9: the loop of exp(base, exponent) terminates after at most N iterations:
\* every iteration halves the exponent, which after iter iterations is below
\* 2^(N - iter) and so 0 after N of them at the latest.  exp returns
\* base^exponent mod 2^N, and exp(base, 0) = 1.
C9_ExpTerminatesWithPower == []ExpState /\ [][ExpStep]_vars

\* A 512-bit exp that ran N iterations (the top bit of the exponent set)
\* and returned a value other than 0 and 1.
C9_Witness ==
    /\ pc = "done" /\ op = "exp" /\ T = "uint512"
    /\ res.iter = bits(T) /\ res.result > 1

(***************************************************************************)
(* Big-endian byte conversion.  A byte of the scaled model is one bit, so  *)
(* a value of type t has bits(t) bytes; memory is little-endian and the    *)
(* struct lays lo out before hi.                                           *)
(***************************************************************************)
num_bytes(t) == bits(t)

\* bswap of the primitives uint64_t and uint128: x of n bytes, reversed.
RECURSIVE prim_bswap(_, _)
prim_bswap(x, n) ==
    IF n = 0 THEN 0
    ELSE (x % 2) * 2^(n - 1) + prim_bswap(x \div 2, n - 1)

RECURSIVE bswap(_, _)

\* The mutant reverses each half and leaves the halves in place.
bswap_halves_in_place(x, t) ==
    IF t \in {"uint64", "uint128"} THEN prim_bswap(x, num_bytes(t))
    ELSE uint(bswap(lo_half(x, t), half_type(t)),
              bswap(hi_half(x, t), half_type(t)), t)

\* return {bswap(x.hi), bswap(x.lo)}: the constructor takes (lo, hi).
bswap(x, t) ==
    IF t \in {"uint64", "uint128"} THEN prim_bswap(x, num_bytes(t))
    ELSE uint(bswap(hi_half(x, t), half_type(t)),
              bswap(lo_half(x, t), half_type(t)), t)

\* std::memcpy(dst, &d, sizeof(d)): the bytes of d in memory order.
memcpy_from(d, t) == [i \in 0 .. (num_bytes(t) - 1) |-> (d \div 2^i) % 2]

\* std::memcpy(&x, bytes, sizeof(x)): the value whose bytes in memory order
\* are bytes[0 .. n-1].
RECURSIVE memcpy_to(_, _)
memcpy_to(bytes, n) ==
    IF n = 0 THEN 0
    ELSE memcpy_to(bytes, n - 1) + bytes[n - 1] * 2^(n - 1)

\* be::store(dst, x): the bytes written to dst.
store(x, t) == memcpy_from(bswap(x, t), t)

\* be::uint256(bytes).
be_uint256(bytes) == bswap(memcpy_to(bytes, num_bytes("uint256")), "uint256")

\* The big-endian byte i of v, (v >> (N - 8 * (i + 1))) & 0xFF, for bytes of
\* one bit.
ByteBE(v, i, n) == (v \div 2^(n - (i + 1))) % 2

InitBytes ==
    /\ pc = "call"
    /\ \/ op = "be::store" /\ T \in {"uint256", "uint512"}
       \/ op = "be::uint256" /\ T = "uint256"
    /\ a \in Inputs(T)
    /\ b = 0
    /\ res = None

Call_store ==
    /\ pc = "call"
    /\ op = "be::store"
    /\ res' = [dst |-> store(a, T)]
    /\ pc' = "done"
    /\ UNCHANGED <<op, T, a, b>>

\* The caller loads the buffer that holds the big-endian bytes of a.
Call_be_uint256 ==
    /\ pc = "call"
    /\ op = "be::uint256"
    /\ res' = [value |-> be_uint256([i \in 0 .. (num_bytes(T) - 1) |->
                                        ByteBE(a, i, bits(T))])]
    /\ pc' = "done"
    /\ UNCHANGED <<op, T, a, b>>

NextBytes == Call_store \/ Call_be_uint256

SpecBytes == InitBytes /\ [][NextBytes]_vars

\* C10: be::store(dst, v) writes N/8 bytes, the byte at index i being
\* (v >> (N - 8 * (i + 1))) & 0xFF, the most significant byte first.
C10_StoreBigEndian ==
    (pc = "done" /\ op = "be::store") =>
        /\ DOMAIN res.dst = 0 .. (num_bytes(T) - 1)
        /\ \A i \in 0 .. (num_bytes(T) - 1) : res.dst[i] = ByteBE(a, i, bits(T))

\* The scenario of the specification on the wider type: the store of 1
\* writes 1 to the last byte and 0 to every other byte.
C10_Witness ==
    /\ pc = "done" /\ op = "be::store" /\ T = "uint512" /\ a = 1
    /\ res.dst[num_bytes(T) - 1] = 1
    /\ \A i \in 0 .. (num_bytes(T) - 2) : res.dst[i] = 0

(***************************************************************************)
(* Decimal strings.  The radix of the code, 10, is a constant that fits a  *)
(* machine word and is no power of two; at the scale of the model, where a *)
(* word has WordBits bits, the radix is the largest such value.  A string  *)
(* is the sequence of its chars, a char its code as a signed 8-bit value.  *)
(***************************************************************************)
Radix == 2^WordBits - 1

\* The char '0'.
Char0 == 48

\* static_cast<char>(i) of an integer i.
static_cast_char(i) ==
    LET m == i % 256 IN IF m >= 128 THEN m - 256 ELSE m

\* The converting constructor uint(uint64_t x) : lo{x}, applied to an
\* integer v: v is converted to the machine word first.
uint_from_uint64(v) == v % 2^WordBits

\* explicit operator Int(): static_cast<Int>(lo), down to the lowest word.
RECURSIVE operator_Int(_, _)
operator_Int(x, t) ==
    IF t = "uint64" THEN x ELSE operator_Int(lo_half(x, t), half_type(t))

\* The type to_string works on: to_string(uint128 x) is to_string(uint256(x)).
to_string_type(t) == IF t = "uint128" THEN "uint256" ELSE t

\* std::reverse(s.begin(), s.end()).
reverse(s) == [i \in 1 .. Len(s) |-> s[Len(s) + 1 - i]]

\* One iteration of the loop of to_string on the locals l; c is res.rem on
\* uint256 and res.rem.lo on uint512.
to_string_body(l, t) ==
    LET r == udivrem(l.x, uint_from_uint64(Radix), t)
        c == IF t = "uint512" THEN operator_Int(lo_half(r.rem, t), half_type(t))
             ELSE operator_Int(r.rem, t)
    IN  [x |-> r.quot, s |-> Append(l.s, static_cast_char(Char0 + c))]

\* The mutant adds the digit before it multiplies by the radix.
from_string_body_add_first(l, t) ==
    LET v == l.str[l.i] - Char0
        sum == add(l.x, uint_from_uint64(v), t)
    IN  [str |-> l.str, i |-> l.i + 1,
         x |-> operator_mul(sum, uint_from_uint64(Radix), t)]

\* One iteration of the loop of from_string on the locals l: the char
\* l.str[l.i] is c.
from_string_body(l, t) ==
    LET v == l.str[l.i] - Char0
        x10 == operator_mul(l.x, uint_from_uint64(Radix), t)
    IN  [str |-> l.str, i |-> l.i + 1, x |-> add(x10, uint_from_uint64(v), t)]

(***************************************************************************)
(* The caller of to_string, who passes the string to from_string<Int>.     *)
(***************************************************************************)
InitString ==
    /\ pc = "call"
    /\ op = "to_string"
    /\ T \in {"uint128", "uint256", "uint512"}
    /\ a \in Inputs(T)
    /\ b = 0
    /\ res = None

\* if (x == 0) return "0";
ToString_zero ==
    /\ pc = "call"
    /\ op = "to_string"
    /\ a = 0
    /\ res' = [str |-> <<Char0>>]
    /\ pc' = "returned"
    /\ UNCHANGED <<op, T, a, b>>

\* std::string s; the parameter x is a copy.
ToString_enter ==
    /\ pc = "call"
    /\ op = "to_string"
    /\ a # 0
    /\ res' = [x |-> a, s |-> <<>>]
    /\ pc' = "loop"
    /\ UNCHANGED <<op, T, a, b>>

\* while (x != 0) { ... }
ToString_iterate ==
    /\ pc = "loop"
    /\ op = "to_string"
    /\ res.x # 0
    /\ res' = to_string_body(res, to_string_type(T))
    /\ UNCHANGED <<pc, op, T, a, b>>

\* std::reverse(s.begin(), s.end()); return s;
ToString_return ==
    /\ pc = "loop"
    /\ op = "to_string"
    /\ res.x = 0
    /\ res' = [str |-> reverse(res.s)]
    /\ pc' = "returned"
    /\ UNCHANGED <<op, T, a, b>>

\* from_string<Int>(s) on the string to_string returned: Int x{}.
Call_from_string ==
    /\ pc = "returned"
    /\ op = "to_string"
    /\ op' = "from_string"
    /\ res' = [str |-> res.str, i |-> 1, x |-> 0]
    /\ pc' = "loop"
    /\ UNCHANGED <<T, a, b>>

\* for (auto c : s) { ... }
FromString_iterate ==
    /\ pc = "loop"
    /\ op = "from_string"
    /\ res.i <= Len(res.str)
    /\ res' = from_string_body(res, T)
    /\ UNCHANGED <<pc, op, T, a, b>>

\* return x;
FromString_return ==
    /\ pc = "loop"
    /\ op = "from_string"
    /\ res.i > Len(res.str)
    /\ pc' = "done"
    /\ UNCHANGED <<op, T, a, b, res>>

NextString ==
    \/ ToString_zero
    \/ ToString_enter
    \/ ToString_iterate
    \/ ToString_return
    \/ Call_from_string
    \/ FromString_iterate
    \/ FromString_return

SpecString == InitString /\ [][NextString]_vars

\* The digits of n in the radix, most significant first, as chars.
RECURSIVE DigitsOf(_)
DigitsOf(n) ==
    IF n < Radix THEN <<Char0 + n>>
    ELSE Append(DigitsOf(n \div Radix), Char0 + (n % Radix))

\* The number whose digits, least significant first, are the chars of s.
RECURSIVE ValueLSF(_)
ValueLSF(s) ==
    IF s = <<>> THEN 0 ELSE (Head(s) - Char0) + Radix * ValueLSF(Tail(s))

\* What holds of the locals of to_string and from_string while they run and
\* when they have returned.
StringState ==
    /\ (op = "to_string" /\ pc = "loop") =>
          /\ Len(res.s) <= bits(T)
          /\ res.x * Radix^Len(res.s) + ValueLSF(res.s) = a
          /\ \A i \in 1 .. Len(res.s) : res.s[i] - Char0 \in 0 .. (Radix - 1)
    /\ (op = "to_string" /\ pc = "returned") =>
          /\ res.str = DigitsOf(a)
          /\ (a = 0 => res.str = <<Char0>>)
    /\ (op = "from_string") =>
          /\ res.str = DigitsOf(a)
          /\ res.i <= Len(res.str) + 1
          /\ (pc = "done") => (res.i = Len(res.str) + 1 /\ res.x = a)

\* What every iteration of the two loops does: to_string appends one digit
\* and makes x smaller, from_string consumes one char.
StringStep ==
    /\ (op = "to_string" /\ pc = "loop" /\ pc' = "loop") =>
          /\ res'.x < res.x
          /\ res'.x = res.x \div Radix
          /\ Len(res'.s) = Len(res.s) + 1
    /\ (op = "from_string" /\ pc = "loop" /\ pc' = "loop") =>
          /\ res'.i = res.i + 1
          /\ res'.str = res.str

\* C11: from_string(to_string(x)) = x for every x.  to_string terminates
\* (every iteration divides x by the radix, so x gets smaller until it is
\* 0) and returns the digits of x most significant first, "0" for 0;
\* from_string, accumulating acc * radix + digit over them, returns x.
C11_StringRoundTrip == []StringState /\ [][StringStep]_vars

\* The scenario of the specification: the round trip of the largest
\* 256-bit value, whose string has several digits.
C11_Witness ==
    /\ pc = "done" /\ op = "from_string" /\ T = "uint256"
    /\ a = 2^bits(T) - 1
    /\ Len(res.str) > 2
    /\ res.x = a

(***************************************************************************)
(* clz.  The template of intx.hpp serves uint256 and uint512; clz of the   *)
(* half of a uint256, a uint128, is the primitive's.  The primitive counts *)
(* the leading zeros of a non-zero value; of zero its result is undefined  *)
(* (the source: "For x == 0 this is UB"), here the outcome u, any count    *)
(* from 0 to the width of the primitive.                                   *)
(***************************************************************************)
ClzOfZero == 0 .. bits("uint128")

\* unsigned clz(Int x).
RECURSIVE clz(_, _, _)
clz(x, t, u) ==
    IF t = "uint128" THEN (IF x = 0 THEN u ELSE prim_clz(x, bits(t)))
    ELSE LET l == lo_half(x, t)
             h == hi_half(x, t)
         IN  IF h = 0 THEN operator_or(clz(l, half_type(t), u), half_bits(t))
             ELSE clz(h, half_type(t), u)

\* Whether clz(x) of type t gets to the clz of a primitive that is zero.
RECURSIVE clz_of_zero_primitive(_, _)
clz_of_zero_primitive(x, t) ==
    IF t = "uint128" THEN x = 0
    ELSE IF hi_half(x, t) = 0 THEN clz_of_zero_primitive(lo_half(x, t), half_type(t))
         ELSE clz_of_zero_primitive(hi_half(x, t), half_type(t))

InitClz ==
    /\ pc = "call"
    /\ op = "clz"
    /\ T \in {"uint256", "uint512"}
    /\ a \in Inputs(T)
    /\ b = 0
    /\ res = None

Call_clz ==
    /\ pc = "call"
    /\ op = "clz"
    /\ \E u \in ClzOfZero :
          res' = [value |-> clz(a, T, u), undefined |-> clz_of_zero_primitive(a, T)]
    /\ pc' = "done"
    /\ UNCHANGED <<op, T, a, b>>

NextClz == Call_clz

SpecClz == InitClz /\ [][NextClz]_vars

\* C12: clz(0) is the bit width N of its argument, and clz gets to it
\* without the undefined clz of a zero half.
C12_ClzOfZeroIsWidth ==
    (pc = "done" /\ op = "clz" /\ a = 0) =>
        /\ res.value = bits(T)
        /\ ~res.undefined

(***************************************************************************)
(* The library as a whole: a caller invokes any one of its functions.      *)
(***************************************************************************)
Init ==
    \/ InitAdd \/ InitShift \/ InitUmul \/ InitMul \/ InitDiv \/ InitExp
    \/ InitBytes \/ InitString \/ InitClz

Next ==
    \/ NextAdd \/ NextShift \/ NextUmul \/ NextMul \/ NextDiv \/ NextExp
    \/ NextBytes \/ NextString \/ NextClz

Spec == Init /\ [][Next]_vars

====
